---- MODULE Spec2Model ----
(***************************************************************************)
(* A model of the strava-gpt backend: the activity repository and the      *)
(* credential store (app/storage.py, app/storage_bak.py), the token        *)
(* refresh protocol (app/main.py, app/strava.py), pace formatting and the  *)
(* summary statistics (app/main.py, app/stats.py).                         *)
(*                                                                         *)
(* Conventions.  Python's None is the empty sequence and a present value v *)
(* is <<v>>.  Text is a sequence of one-character strings, so that         *)
(* formatting and parsing are computed and not assumed.  Floating point    *)
(* quotients are computed exactly, as integer numerator and denominator.   *)
(***************************************************************************)
EXTENDS Integers, Sequences, FiniteSets, TLC

VARIABLES paceIn, paceOut, runs, summary, impl, tokens, now, tlast,
          activities, rlast, cmp, win, workers, sweep, rotation

varsPace == <<paceIn, paceOut>>

varsStats == <<runs, summary>>

varsTokens == <<tokens, now, tlast>>

varsRepo == <<activities, rlast>>

varsAux == <<cmp, win, workers, sweep, rotation>>

vars == <<paceIn, paceOut, runs, summary, impl, tokens, now, tlast,
          activities, rlast, cmp, win, workers, sweep, rotation>>

-----------------------------------------------------------------------------
(* Optional values and arithmetic helpers.                                 *)

None == <<>>

Some(v) == <<v>>

IsNone(x) == x = <<>>

Val(x) == x[1]

\* Python's round() of the non-negative quotient num/den to an integer:
\* to the nearest, a tie to the even neighbour.
RoundHalfEven(num, den) ==
  LET q == num \div den
      r == num % den
  IN  IF 2 * r > den THEN q + 1
      ELSE IF 2 * r < den THEN q
      ELSE IF q % 2 = 0 THEN q ELSE q + 1

DigitChar(n) ==
  CASE n = 0 -> "0" [] n = 1 -> "1" [] n = 2 -> "2" [] n = 3 -> "3"
    [] n = 4 -> "4" [] n = 5 -> "5" [] n = 6 -> "6" [] n = 7 -> "7"
    [] n = 8 -> "8" [] n = 9 -> "9"

DigitValue(c) ==
  CASE c = "0" -> 0 [] c = "1" -> 1 [] c = "2" -> 2 [] c = "3" -> 3
    [] c = "4" -> 4 [] c = "5" -> 5 [] c = "6" -> 6 [] c = "7" -> 7
    [] c = "8" -> 8 [] c = "9" -> 9

IsDigit(c) == c \in {"0", "1", "2", "3", "4", "5", "6", "7", "8", "9"}

\* str(n) for n >= 0.
RECURSIVE DecimalChars(_)
DecimalChars(n) ==
  IF n < 10 THEN <<DigitChar(n)>>
  ELSE DecimalChars(n \div 10) \o <<DigitChar(n % 10)>>

\* The format specification "02d" for n >= 0.
TwoDigits(n) == IF n < 10 THEN <<"0">> \o DecimalChars(n) ELSE DecimalChars(n)

\* int(text) for a sequence of digits.
RECURSIVE ParseDigits(_)
ParseDigits(cs) ==
  IF cs = <<>> THEN 0
  ELSE 10 * ParseDigits(SubSeq(cs, 1, Len(cs) - 1)) + DigitValue(cs[Len(cs)])

PaceSuffix == <<" ", "m", "i", "n", "/", "k", "m">>

\* f"{m}:{s:02d} min/km"
PaceText(m, s) == DecimalChars(m) \o <<":">> \o TwoDigits(s) \o PaceSuffix

\* f"{m}:{s:02d}"
ClockText(m, s) == DecimalChars(m) \o <<":">> \o TwoDigits(s)

\* Reading a pace text back: the digits before the colon are the minutes,
\* the digits after it the seconds.
ColonAt(text) == CHOOSE i \in 1..Len(text) : text[i] = ":"

IsPaceText(text) == \E i \in 1..Len(text) : text[i] = ":"

MinutesPart(text) == ParseDigits(SubSeq(text, 1, ColonAt(text) - 1))

SecondsEnd(text) ==
  LET c == ColonAt(text)
  IN  CHOOSE j \in c..Len(text) :
        /\ \A k \in (c + 1)..j : IsDigit(text[k])
        /\ (j = Len(text) \/ ~IsDigit(text[j + 1]))

SecondsPart(text) == ParseDigits(SubSeq(text, ColonAt(text) + 1, SecondsEnd(text)))

-----------------------------------------------------------------------------
(* Pace formatting.                                                        *)

\* sec_per_km = seconds / (meters / 1000.0), as the exact quotient
\* 1000 * seconds / meters; m = int(sec_per_km // 60).
PaceMinutes(seconds, meters) == (1000 * seconds) \div (60 * meters)

\* s = int(round(sec_per_km % 60))
PaceSeconds(seconds, meters) ==
  RoundHalfEven(1000 * seconds - 60 * PaceMinutes(seconds, meters) * meters, meters)

\* main.py: None for a distance that is zero or negative and for a pace
\* that is not positive; a rounded 60 seconds carries into the minutes.
format_pace(moving_time_s, distance_m) ==
  IF distance_m <= 0 THEN None
  ELSE IF moving_time_s <= 0 THEN None
  ELSE LET m == PaceMinutes(moving_time_s, distance_m)
           s == PaceSeconds(moving_time_s, distance_m)
       IN  IF s = 60 THEN PaceText(m + 1, 0) ELSE PaceText(m, s)

\* stats.py: the placeholder "-" where there is no pace, and no carry.
pace_per_km(seconds, meters) ==
  IF meters <= 0 \/ seconds <= 0 THEN <<"-">>
  ELSE PaceText(PaceMinutes(seconds, meters), PaceSeconds(seconds, meters))

\* storage.py, query_runs: pace_min = moving_min / distance_km,
\* mins = int(pace_min), secs = int(round((pace_min - mins) * 60)); no carry.
query_runs_pace(distance_m, moving_time_s) ==
  IF distance_m > 0 /\ moving_time_s > 0
  THEN PaceText(PaceMinutes(moving_time_s, distance_m),
                PaceSeconds(moving_time_s, distance_m))
  ELSE None

\* Bounds of the inputs of the pace functions.
MaxPaceTime == 120

MaxPaceKm == 3

PaceTimes == 0..MaxPaceTime \cup {360, 400}

PaceDistances == {-1000, -1, 0} \cup {1000 * k : k \in 1..MaxPaceKm}

NoPace == [fn |-> "none", out |-> None]

NoSummary == [fn |-> "none"]

StatsIdle == runs = <<>> /\ summary = NoSummary

NoTokenCall == [op |-> "none"]

TokensIdle == tokens = {} /\ now = 0 /\ tlast = NoTokenCall

NoRepoCall == [op |-> "none"]

RepoIdle == activities = {} /\ rlast = NoRepoCall

NoCall == [op |-> "none"]

NoWorkers == <<>>

AuxIdle ==
  /\ cmp = NoCall /\ win = NoCall /\ workers = NoWorkers /\ sweep = NoCall
  /\ rotation = NoCall

PaceIdle == paceIn = [t |-> 0, d |-> 0] /\ paceOut = NoPace

InitPace ==
  /\ paceIn \in [t : PaceTimes, d : PaceDistances]
  /\ paceOut = NoPace
  /\ StatsIdle
  /\ impl = "storage"
  /\ TokensIdle
  /\ RepoIdle
  /\ AuxIdle

FormatPace ==
  /\ paceOut.fn # "format_pace"
  /\ paceOut' = [fn |-> "format_pace", out |-> format_pace(paceIn.t, paceIn.d)]
  /\ UNCHANGED <<paceIn, varsStats, impl, varsTokens, varsRepo, varsAux>>

PacePerKm ==
  /\ paceOut.fn # "pace_per_km"
  /\ paceOut' = [fn |-> "pace_per_km", out |-> pace_per_km(paceIn.t, paceIn.d)]
  /\ UNCHANGED <<paceIn, varsStats, impl, varsTokens, varsRepo, varsAux>>

QueryRunsPace ==
  /\ paceOut.fn # "query_runs"
  /\ paceOut' = [fn |-> "query_runs", out |-> query_runs_pace(paceIn.d, paceIn.t)]
  /\ UNCHANGED <<paceIn, varsStats, impl, varsTokens, varsRepo, varsAux>>

NextPace == FormatPace \/ PacePerKm \/ QueryRunsPace

SpecPace == InitPace /\ [][NextPace]_vars

\* C6: for every duration t > 0 and distance d > 0, the pace text a pace
\* formatter produces reads back with a seconds part in 0..59; 400 s over
\* 1000 m reads "6:40 min/km" and 360 s over 1000 m reads "6:00 min/km".
C6_SecondsBelowSixty ==
  (paceOut.fn # "none" /\ paceIn.t > 0 /\ paceIn.d > 0) =>
    /\ IsPaceText(paceOut.out)
    /\ SecondsPart(paceOut.out) \in 0..59
    /\ (paceIn.t = 400 /\ paceIn.d = 1000 => paceOut.out = PaceText(6, 40))
    /\ (paceIn.t = 360 /\ paceIn.d = 1000 => paceOut.out = PaceText(6, 0))

\* C7: format_pace returns None, not a text, for a distance that is zero or
\* negative, whatever the duration.
C7_AbsentWithoutDistance ==
  (paceOut.fn \in {"format_pace", "pace_per_km"} /\ paceIn.d <= 0) =>
    paceOut.out = None


-----------------------------------------------------------------------------
(* Summary statistics.                                                     *)

\* round(x / 1000.0, 2) and round(x / 3600.0, 2), held in hundredths.  The
\* inputs of the model are multiples of 10 m and of 36 s apart from no tie,
\* where the float's rounding is the exact one.
KmHundredths(distance_m) == RoundHalfEven(distance_m, 10)

HourHundredths(moving_time_s) == RoundHalfEven(moving_time_s, 36)

RECURSIVE SumOf(_, _)
SumOf(rs, field) ==
  IF rs = <<>> THEN 0 ELSE rs[1][field] + SumOf(Tail(rs), field)

\* A list comprehension without its filter: an absent heart rate counts as 0.
RECURSIVE HrValsAbsentAsZero(_)
HrValsAbsentAsZero(rs) ==
  IF rs = <<>> THEN <<>>
  ELSE LET hr == rs[1].average_heartrate
       IN  <<IF IsNone(hr) THEN 0 ELSE Val(hr)>> \o HrValsAbsentAsZero(Tail(rs))

\* [r.average_heartrate for r in runs if r.average_heartrate]: None and 0
\* are both left out.
RECURSIVE HrVals(_)
HrVals(rs) ==
  IF rs = <<>> THEN <<>>
  ELSE LET hr == rs[1].average_heartrate
       IN  IF IsNone(hr) \/ Val(hr) = 0 THEN HrVals(Tail(rs))
           ELSE <<Val(hr)>> \o HrVals(Tail(rs))

RECURSIVE SumSeq(_)
SumSeq(xs) == IF xs = <<>> THEN 0 ELSE xs[1] + SumSeq(Tail(xs))

\* stats.py: int(sum(hr_vals) / len(hr_vals)) if hr_vals else None
AvgHrTruncated(rs) ==
  LET hr_vals == HrVals(rs)
  IN  IF hr_vals = <<>> THEN None ELSE Some(SumSeq(hr_vals) \div Len(hr_vals))

\* main.py: round(sum(avg_hr_vals) / len(avg_hr_vals)) if avg_hr_vals else None
AvgHrRounded(rs) ==
  LET hr_vals == HrVals(rs)
  IN  IF hr_vals = <<>> THEN None
      ELSE Some(RoundHalfEven(SumSeq(hr_vals), Len(hr_vals)))

LowerChar(c) ==
  CASE c = "H" -> "h" [] c = "M" -> "m" [] c = "K" -> "k" [] OTHER -> c

Lower(name) == [i \in 1..Len(name) |-> LowerChar(name[i])]

\* Python's "label in name" on strings.
Contains(name, label) ==
  \E i \in 1..(Len(name) - Len(label) + 1) :
    SubSeq(name, i, i + Len(label) - 1) = label

Label5k == <<"5", "k">>

Label10k == <<"1", "0", "k">>

LabelsHalf ==
  { <<"h", "a", "l", "f", " ", "m", "a", "r", "a", "t", "h", "o", "n">>,
    <<"2", "1", "k">>,
    <<"2", "1", ".", "1", "k">>,
    <<"2", "1", ".", "1", " ", "k", "m">> }

\* best[k] is None or effort["elapsed_time"] < best[k]
Better(best, elapsed) == IF IsNone(best) \/ elapsed < Val(best) THEN Some(elapsed) ELSE best

\* One pass of the inner loop of summarize_runs over one effort.
ScanEffort(best, effort) ==
  LET name == Lower(effort.name)
  IN  [k5  |-> IF Contains(name, Label5k) THEN Better(best.k5, effort.elapsed_time)
               ELSE best.k5,
       k10 |-> IF Contains(name, Label10k) THEN Better(best.k10, effort.elapsed_time)
               ELSE best.k10,
       k21 |-> IF \E x \in LabelsHalf : Contains(name, x)
               THEN Better(best.k21, effort.elapsed_time)
               ELSE best.k21]

RECURSIVE ScanEfforts(_, _)
ScanEfforts(best, be) ==
  IF be = <<>> THEN best ELSE ScanEfforts(ScanEffort(best, be[1]), Tail(be))

\* be = r.raw.get("best_efforts") or [], for a raw that is a dict.
RECURSIVE ScanRuns(_, _)
ScanRuns(best, rs) ==
  IF rs = <<>> THEN best
  ELSE ScanRuns(IF IsNone(rs[1].raw) THEN best
                ELSE ScanEfforts(best, Val(rs[1].raw).best_efforts),
                Tail(rs))

\* fmt_time of summarize_runs: None, or f"{m}:{s:02d}" of the seconds.
fmt_time(sec) ==
  IF IsNone(sec) THEN None ELSE ClockText(Val(sec) \div 60, Val(sec) % 60)

\* dict.get(key)
DictGet(d, key) == IF key \in DOMAIN d THEN d[key] ELSE None

EmptyDict == [k \in {} |-> None]

BestKeys == {"5k", "10k", "21k"}

\* stats.py, summarize_runs.
summarize_runs(rs) ==
  IF rs = <<>>
  THEN [fn |-> "summarize_runs", sessions |-> 0, distance_km |-> 0,
        moving_time_h |-> 0, elev_gain_m |-> 0, avg_pace |-> <<"-">>,
        avg_hr |-> None, best_efforts |-> EmptyDict]
  ELSE LET dist == SumOf(rs, "distance_m")
           movs == SumOf(rs, "moving_time_s")
           elev == SumOf(rs, "total_elevation_gain_m")
           best == ScanRuns([k5 |-> None, k10 |-> None, k21 |-> None], rs)
       IN  [fn |-> "summarize_runs", sessions |-> Len(rs),
            distance_km |-> KmHundredths(dist),
            moving_time_h |-> HourHundredths(movs),
            elev_gain_m |-> elev,
            avg_pace |-> pace_per_km(movs, dist),
            avg_hr |-> AvgHrTruncated(rs),
            best_efforts |-> [k \in BestKeys |->
                               fmt_time(CASE k = "5k" -> best.k5
                                          [] k = "10k" -> best.k10
                                          [] k = "21k" -> best.k21)]]

\* eligible = [r for r in runs if r.distance_m >= min_dist_m and r.moving_time_s > 0]
RECURSIVE Eligible(_, _)
Eligible(rs, min_dist_m) ==
  IF rs = <<>> THEN <<>>
  ELSE IF rs[1].distance_m >= min_dist_m /\ rs[1].moving_time_s > 0
       THEN <<rs[1]>> \o Eligible(Tail(rs), min_dist_m)
       ELSE Eligible(Tail(rs), min_dist_m)

\* min(eligible, key=lambda r: r.moving_time_s / (r.distance_m / min_dist_m)):
\* the first run of the least key; the keys are compared by cross
\* multiplication.
MinByPace(es) ==
  LET i == CHOOSE i \in 1..Len(es) :
             /\ \A j \in 1..Len(es) :
                  es[i].moving_time_s * es[j].distance_m
                    <= es[j].moving_time_s * es[i].distance_m
             /\ \A j \in 1..(i - 1) :
                  es[j].moving_time_s * es[i].distance_m
                    # es[i].moving_time_s * es[j].distance_m
  IN  es[i]

\* main.py, best_time_for_dist of stats_summary.
best_time_for_dist(rs, min_dist_m) ==
  LET eligible == Eligible(rs, min_dist_m)
  IN  IF eligible = <<>> THEN None
      ELSE LET best == MinByPace(eligible)
               secs == (best.moving_time_s * min_dist_m) \div best.distance_m
           IN  ClockText(secs \div 60, secs % 60)

\* main.py, stats_summary, from the runs of the window on.
stats_summary(rs) ==
  LET total_dist_m == SumOf(rs, "distance_m")
      total_time_s == SumOf(rs, "moving_time_s")
  IN  [fn |-> "stats_summary", sessions |-> Len(rs),
       distance_km |-> KmHundredths(total_dist_m),
       moving_time_h |-> HourHundredths(total_time_s),
       elev_gain_m |-> SumOf(rs, "total_elevation_gain_m"),
       avg_pace |-> IF total_dist_m > 0 THEN format_pace(total_time_s, total_dist_m)
                    ELSE None,
       avg_hr |-> AvgHrRounded(rs),
       best_efforts |-> [k \in BestKeys |->
                          best_time_for_dist(rs, CASE k = "5k" -> 5000
                                                   [] k = "10k" -> 10000
                                                   [] k = "21k" -> 21097)]]

\* Bounds of the inputs of the summaries.
MaxRuns == 3

RunHeartRates == {None, Some(0), Some(150), Some(151)}

Effort5k == [name |-> <<"5", "k">>, elapsed_time |-> 1480]

RunRaws == {None, Some([best_efforts |-> <<>>]), Some([best_efforts |-> <<Effort5k>>])}

RunRecords ==
  [distance_m : {0, 5000}, moving_time_s : {1500}, total_elevation_gain_m : {12},
   average_heartrate : RunHeartRates, raw : {None}]
  \cup
  [distance_m : {5000}, moving_time_s : {1500}, total_elevation_gain_m : {12},
   average_heartrate : {Some(150)}, raw : RunRaws]

RunLists == UNION {[1..n -> RunRecords] : n \in 0..MaxRuns}

InitStats ==
  /\ runs \in RunLists
  /\ summary = NoSummary
  /\ PaceIdle
  /\ impl = "storage"
  /\ TokensIdle
  /\ RepoIdle
  /\ AuxIdle

SummarizeRuns ==
  /\ summary.fn # "summarize_runs"
  /\ summary' = summarize_runs(runs)
  /\ UNCHANGED <<runs, varsPace, impl, varsTokens, varsRepo, varsAux>>

StatsSummary ==
  /\ summary.fn # "stats_summary"
  /\ summary' = stats_summary(runs)
  /\ UNCHANGED <<runs, varsPace, impl, varsTokens, varsRepo, varsAux>>

NextStats == SummarizeRuns \/ StatsSummary

SpecStats == InitStats /\ [][NextStats]_vars

\* C8: the summary of no records is 0 sessions, 0.0 km, 0.0 h, 0 m of
\* elevation, no pace, no heart rate and no best effort for any of the three
\* distances.
C8_EmptySummary ==
  (summary.fn # "none" /\ runs = <<>>) =>
    /\ summary.sessions = 0
    /\ summary.distance_km = 0
    /\ summary.moving_time_h = 0
    /\ summary.elev_gain_m = 0
    /\ summary.avg_pace = None
    /\ summary.avg_hr = None
    /\ \A k \in BestKeys : DictGet(summary.best_efforts, k) = None

\* The records of a list whose heart rate is present, and those whose heart
\* rate is present and not zero.
WithHr(rs) == {i \in 1..Len(rs) : ~IsNone(rs[i].average_heartrate)}

WithNonZeroHr(rs) == {i \in WithHr(rs) : Val(rs[i].average_heartrate) # 0}

RECURSIVE HrTotal(_, _)
HrTotal(rs, idx) ==
  IF idx = {} THEN 0
  ELSE LET i == CHOOSE i \in idx : TRUE
       IN  Val(rs[i].average_heartrate) + HrTotal(rs, idx \ {i})

\* C9 as stated: the average heart rate is the arithmetic mean of the heart
\* rates that are present, and None when none is present.
C9_ExactMean ==
  summary.fn # "none" =>
    IF WithHr(runs) = {} THEN summary.avg_hr = None
    ELSE /\ ~IsNone(summary.avg_hr)
         /\ Val(summary.avg_hr) * Cardinality(WithHr(runs))
              = HrTotal(runs, WithHr(runs))

\* C9 as amended: the average heart rate is the mean of the heart rates that
\* are present and not zero, cut to an integer by summarize_runs and rounded
\* to the nearest integer (a tie to the even one) by stats_summary; None when
\* no record has one.  An absent heart rate is never counted as zero: of 150
\* and absent the average is 150.
C9_IntegerMeanOfPresent ==
  summary.fn # "none" =>
    LET idx == WithNonZeroHr(runs)
        n == Cardinality(idx)
        total == HrTotal(runs, idx)
    IN  IF n = 0 THEN summary.avg_hr = None
        ELSE /\ ~IsNone(summary.avg_hr)
             /\ LET a == Val(summary.avg_hr)
                IN  IF summary.fn = "summarize_runs"
                    THEN a * n <= total /\ total < (a + 1) * n
                    ELSE /\ (2 * a - 1) * n <= 2 * total
                         /\ 2 * total <= (2 * a + 1) * n
                         /\ (2 * total = (2 * a - 1) * n => a % 2 = 0)
                         /\ (2 * total = (2 * a + 1) * n => a % 2 = 0)

C9_Witness ==
  /\ summary.fn # "none"
  /\ Len(runs) = 2
  /\ runs[1].average_heartrate = Some(150)
  /\ runs[2].average_heartrate = None
  /\ summary.avg_hr = Some(150)

-----------------------------------------------------------------------------
(* The credential store and the token refresh protocol.                    *)

\* db.get(Token, athlete_id): the row of that key, or None.
TokenGet(table, athlete_id) ==
  IF \E r \in table : r.athlete_id = athlete_id
  THEN Some(CHOOSE r \in table : r.athlete_id = athlete_id)
  ELSE None

\* scope or ""
ScopeOrEmpty(scope) == IF IsNone(scope) THEN "" ELSE Val(scope)

\* An upsert that never looks the row up.
upsert_token_always_add(table, athlete_id, access_token, refresh_token, expires_at, scope) ==
  table \cup {[athlete_id |-> athlete_id, access_token |-> access_token,
               refresh_token |-> refresh_token, scope |-> ScopeOrEmpty(scope),
               expires_at |-> expires_at]}

\* storage.py, upsert_token: the row is added when the key has none and
\* overwritten in place when it has one; expires_at is stored as given.
upsert_token(table, athlete_id, access_token, refresh_token, expires_at, scope) ==
  LET tok == TokenGet(table, athlete_id)
  IN  IF IsNone(tok)
      THEN table \cup {[athlete_id |-> athlete_id, access_token |-> access_token,
                        refresh_token |-> refresh_token,
                        scope |-> ScopeOrEmpty(scope), expires_at |-> expires_at]}
      ELSE (table \ {Val(tok)})
             \cup {[Val(tok) EXCEPT !.access_token = access_token,
                                    !.refresh_token = refresh_token,
                                    !.scope = ScopeOrEmpty(scope),
                                    !.expires_at = expires_at]}

\* storage_bak.py, _to_utc_datetime of epoch seconds: a datetime in UTC.
ToUtcDatetime(epoch) == [utc |-> epoch]

\* storage_bak.py, upsert_token: as above, with expires_at stored as a
\* datetime.
upsert_token_bak(table, athlete_id, access_token, refresh_token, expires_at, scope) ==
  LET exp_dt == ToUtcDatetime(expires_at)
      tok == TokenGet(table, athlete_id)
  IN  IF ~IsNone(tok)
      THEN (table \ {Val(tok)})
             \cup {[Val(tok) EXCEPT !.access_token = access_token,
                                    !.refresh_token = refresh_token,
                                    !.expires_at = exp_dt,
                                    !.scope = ScopeOrEmpty(scope)]}
      ELSE table \cup {[athlete_id |-> athlete_id, access_token |-> access_token,
                        refresh_token |-> refresh_token, expires_at |-> exp_dt,
                        scope |-> ScopeOrEmpty(scope)]}

\* The safety margin, in seconds, of both refresh checks.
RefreshMargin == 60

\* STRAVA_CLIENT_ID and STRAVA_CLIENT_SECRET are set: the deployment is
\* configured (without them ensure_fresh_access_token raises before any
\* upstream call).
ClientConfigured == TRUE

IsTokenBody(body) == "access_token" \in DOMAIN body

NoError == [kind |-> "none", status |-> None, text |-> None]

\* The outcome of a refresh check: whether upstream was called, the store
\* and the in-memory credential afterwards, whether the call returned, and
\* the error it raised.
Outcome(called, store, mem, returned, error) ==
  [called |-> called, store |-> store, mem |-> mem, returned |-> returned,
   error |-> error]

\* A refresh that stores and returns the refresh token it was given.
ensure_fresh_keeps_refresh_token(table, tok, now_ts, resp) ==
  IF tok.expires_at # 0 /\ tok.expires_at > now_ts + RefreshMargin
  THEN Outcome(FALSE, table, tok, TRUE, NoError)
  ELSE IF resp.status >= 400
  THEN Outcome(TRUE, table, tok, FALSE,
               [kind |-> "HTTPException", status |-> Some(resp.status),
                text |-> Some(resp.body.text)])
  ELSE IF ~IsTokenBody(resp.body)
  THEN Outcome(TRUE, table, tok, FALSE,
               [kind |-> "JSONDecodeError", status |-> None, text |-> None])
  ELSE LET payload == resp.body
       IN  Outcome(TRUE,
                   upsert_token(table, tok.athlete_id, payload.access_token,
                                tok.refresh_token, payload.expires_at,
                                payload.scope),
                   [tok EXCEPT !.access_token = payload.access_token,
                               !.expires_at = payload.expires_at,
                               !.scope = ScopeOrEmpty(payload.scope)],
                   TRUE, NoError)

\* main.py, ensure_fresh_access_token.  The credential is returned as it is
\* when it expires later than now + 60; otherwise upstream is asked, a
\* status of 400 or more raises HTTPException(status, body), and any other
\* answer is read as JSON and stored.
ensure_fresh_access_token(table, tok, now_ts, resp) ==
  IF tok.expires_at # 0 /\ tok.expires_at > now_ts + RefreshMargin
  THEN Outcome(FALSE, table, tok, TRUE, NoError)
  ELSE IF resp.status >= 400
  THEN Outcome(TRUE, table, tok, FALSE,
               [kind |-> "HTTPException", status |-> Some(resp.status),
                text |-> Some(resp.body.text)])
  ELSE IF ~IsTokenBody(resp.body)
  THEN Outcome(TRUE, table, tok, FALSE,
               [kind |-> "JSONDecodeError", status |-> None, text |-> None])
  ELSE LET payload == resp.body
       IN  Outcome(TRUE,
                   upsert_token(table, tok.athlete_id, payload.access_token,
                                payload.refresh_token, payload.expires_at,
                                payload.scope),
                   [tok EXCEPT !.access_token = payload.access_token,
                               !.refresh_token = payload.refresh_token,
                               !.expires_at = payload.expires_at,
                               !.scope = ScopeOrEmpty(payload.scope)],
                   TRUE, NoError)

\* strava.py, refresh_access_token: raise_for_status() raises an
\* HTTPStatusError holding the response for every status outside 200..299.
refresh_access_token(resp) ==
  IF resp.status \in 200..299
  THEN [ok |-> TRUE, data |-> resp.body, error |-> NoError]
  ELSE [ok |-> FALSE, data |-> resp.body,
        error |-> [kind |-> "HTTPStatusError", status |-> Some(resp.status),
                   text |-> Some(resp.body.text)]]

\* strava.py, ensure_fresh_token, with storage.upsert_token as the
\* storage_updater (called without a scope).  Upstream is asked when
\* expires_at - 60 < now.
ensure_fresh_token(table, token_row, now_ts, resp) ==
  IF token_row.expires_at - RefreshMargin < now_ts
  THEN LET r == refresh_access_token(resp)
       IN  IF ~r.ok THEN Outcome(TRUE, table, token_row, FALSE, r.error)
           ELSE Outcome(TRUE,
                        upsert_token(table, token_row.athlete_id,
                                     r.data.access_token, r.data.refresh_token,
                                     r.data.expires_at, None),
                        [token_row EXCEPT !.access_token = r.data.access_token,
                                          !.refresh_token = r.data.refresh_token,
                                          !.expires_at = r.data.expires_at],
                        TRUE, NoError)
  ELSE Outcome(FALSE, table, token_row, TRUE, NoError)

\* Bounds and inputs of the credential store.
MaxNow == 1

Athletes == {7, 8}

\* What upstream issues: the code exchange issues the first pair of tokens,
\* a refresh issues a new access token with the refresh token kept or
\* rotated.
ExpiryEpochs == {30, 60, 3600}

ExchangeBodies ==
  [access_token : {"a1"}, refresh_token : {"r1"}, expires_at : ExpiryEpochs,
   scope : {Some("read")}]

RefreshBodies ==
  [access_token : {"a2"}, refresh_token : {"r1", "r2"},
   expires_at : ExpiryEpochs, scope : {Some("read")}]

ErrorBody == [text |-> "error"]

ExchangeResponses ==
  [status : {200}, body : ExchangeBodies] \cup [status : {401}, body : {ErrorBody}]

RefreshResponses ==
  [status : {200}, body : RefreshBodies]
    \cup [status : {302, 401, 500}, body : {ErrorBody}]

InitTokens ==
  /\ impl \in {"storage", "storage_bak"}
  /\ TokensIdle
  /\ PaceIdle
  /\ StatsIdle
  /\ RepoIdle
  /\ AuxIdle

\* main.py, oauth_callback: the code is exchanged upstream; a status of 400
\* or more raises HTTPException(502), a complete answer is upserted.
OAuthCallback(athlete_id, resp) ==
  /\ IF resp.status >= 400 \/ ~IsTokenBody(resp.body)
     THEN /\ tlast' = [op |-> "oauth_callback", athlete_id |-> athlete_id,
                       at |-> now, upserted |-> FALSE,
                       present |-> ~IsNone(TokenGet(tokens, athlete_id)),
                       rows |-> Cardinality(tokens), resp |-> resp]
          /\ UNCHANGED tokens
     ELSE /\ tokens' =
               IF impl = "storage"
               THEN upsert_token(tokens, athlete_id, resp.body.access_token,
                                 resp.body.refresh_token, resp.body.expires_at,
                                 resp.body.scope)
               ELSE upsert_token_bak(tokens, athlete_id, resp.body.access_token,
                                     resp.body.refresh_token,
                                     resp.body.expires_at, resp.body.scope)
          /\ tlast' = [op |-> "oauth_callback", athlete_id |-> athlete_id,
                       at |-> now, upserted |-> TRUE,
                       present |-> ~IsNone(TokenGet(tokens, athlete_id)),
                       rows |-> Cardinality(tokens), resp |-> resp]
  /\ UNCHANGED <<now, impl, varsPace, varsStats, varsRepo, varsAux>>

\* What a refresh check leaves behind: the row it read, the clock, the
\* answer of upstream and the outcome.
RefreshRecord(fn, tok, resp, out) ==
  [op |-> "ensure_fresh", fn |-> fn, athlete_id |-> tok.athlete_id,
   at |-> now, before |-> tok, resp |-> resp, called |-> out.called,
   mem |-> out.mem, returned |-> out.returned, error |-> out.error,
   upserted |-> out.called /\ out.returned,
   present |-> TRUE, rows |-> Cardinality(tokens)]

\* A request reads a stored credential and runs main.py's refresh check on
\* it.  The columns of storage_bak hold datetimes, which the check cannot
\* compare with epoch seconds: the check belongs to storage.py's schema.
EnsureFreshAccessToken(tok, resp) ==
  /\ impl = "storage"
  /\ ClientConfigured
  /\ tok \in tokens
  /\ LET out == ensure_fresh_access_token(tokens, tok, now, resp)
     IN  /\ tokens' = out.store
         /\ tlast' = RefreshRecord("ensure_fresh_access_token", tok, resp, out)
  /\ UNCHANGED <<now, impl, varsPace, varsStats, varsRepo, varsAux>>

\* The same with strava.py's refresh check.
EnsureFreshToken(tok, resp) ==
  /\ impl = "storage"
  /\ tok \in tokens
  /\ LET out == ensure_fresh_token(tokens, tok, now, resp)
     IN  /\ tokens' = out.store
         /\ tlast' = RefreshRecord("ensure_fresh_token", tok, resp, out)
  /\ UNCHANGED <<now, impl, varsPace, varsStats, varsRepo, varsAux>>

Tick ==
  /\ now < MaxNow
  /\ now' = now + 1
  /\ UNCHANGED <<tokens, tlast, impl, varsPace, varsStats, varsRepo, varsAux>>

NextTokens ==
  \/ \E a \in Athletes, resp \in ExchangeResponses : OAuthCallback(a, resp)
  \/ \E tok \in tokens, resp \in RefreshResponses : EnsureFreshAccessToken(tok, resp)
  \/ \E tok \in tokens, resp \in RefreshResponses : EnsureFreshToken(tok, resp)
  \/ Tick

SpecTokens == InitTokens /\ [][NextTokens]_vars

Triple(c) == <<c.access_token, c.refresh_token, c.expires_at>>

RowsOf(athlete_id) == {r \in tokens : r.athlete_id = athlete_id}

\* C2: the credential store holds at most one credential for each user; an
\* upsert for a user without a credential adds exactly one row, an upsert for
\* a user with one overwrites that row and adds none.
C2_OneCredentialPerUser ==
  /\ \A a \in Athletes : Cardinality(RowsOf(a)) <= 1
  /\ (tlast.op # "none" /\ tlast.upserted) =>
       /\ Cardinality(RowsOf(tlast.athlete_id)) = 1
       /\ Cardinality(tokens) = tlast.rows + (IF tlast.present THEN 0 ELSE 1)
       /\ \A r \in RowsOf(tlast.athlete_id) :
            /\ r.access_token = tlast.resp.body.access_token
            /\ r.refresh_token = tlast.resp.body.refresh_token

C2_Witness ==
  /\ tlast.op = "oauth_callback"
  /\ tlast.upserted
  /\ tlast.present
  /\ Cardinality(tokens) = 2

\* C3: a credential that expires later than now + 60 is returned unchanged
\* without an upstream call, any other credential causes an upstream refresh
\* call; one expiring in 30 seconds is refreshed, one expiring in 3600
\* seconds is not.
C3_RefreshWithinMargin ==
  tlast.op = "ensure_fresh" =>
    /\ IF tlast.before.expires_at > tlast.at + 60
       THEN ~tlast.called /\ tlast.returned /\ tlast.mem = tlast.before
       ELSE tlast.called
    /\ (tlast.before.expires_at - tlast.at = 30 => tlast.called)
    /\ (tlast.before.expires_at - tlast.at = 3600 => ~tlast.called)

\* C4: when upstream answers the refresh call with a status outside 200..299
\* the check fails with an error that carries that status and body, and the
\* stored and the in-memory credential keep their access token, refresh
\* token and expiry.
C4_FailureLeavesCredential ==
  (tlast.op = "ensure_fresh" /\ tlast.called /\ tlast.resp.status \notin 200..299) =>
    /\ ~tlast.returned
    /\ tlast.error.status = Some(tlast.resp.status)
    /\ tlast.error.text = Some(tlast.resp.body.text)
    /\ Triple(tlast.mem) = Triple(tlast.before)
    /\ RowsOf(tlast.athlete_id) = {tlast.before}

\* C5: when a refresh is needed and upstream answers it with success, the
\* credential returned holds the access token, refresh token and expiry of
\* the answer (a rotated refresh token included) and so does the one row now
\* stored for that user.
C5_RefreshStoresAnswer ==
  (tlast.op = "ensure_fresh" /\ tlast.called /\ tlast.resp.status \in 200..299) =>
    /\ tlast.returned
    /\ Triple(tlast.mem) = Triple(tlast.resp.body)
    /\ \E r \in tokens :
         /\ RowsOf(tlast.athlete_id) = {r}
         /\ Triple(r) = Triple(tlast.mem)

C5_Witness ==
  /\ tlast.op = "ensure_fresh"
  /\ tlast.called
  /\ tlast.returned
  /\ tlast.before.refresh_token = "r1"
  /\ tlast.mem.refresh_token = "r2"
  /\ \E r \in tokens : r.athlete_id = tlast.athlete_id /\ r.refresh_token = "r2"

-----------------------------------------------------------------------------
(* The activity repository.                                                *)
(*                                                                         *)
(* A payload is a record of optional fields (None: the key is missing).    *)
(* A timestamp text is what it reads as: an ISO-8601 text of an instant,   *)
(* or text that does not parse.  Distances, elevations and heart rates of  *)
(* a payload are numbers with one decimal, held in tenths.                 *)

IsoText(t) == [text |-> "iso", instant |-> t]

Garbage == [text |-> "garbage", instant |-> 0]

\* dateparser.isoparse and datetime.fromisoformat: the instant, or an
\* exception.
Parses(value) == value.text = "iso"

\* Python's truth of an optional number, text and timestamp text: None, 0
\* and "" are falsy.
Falsy(x) == IsNone(x) \/ Val(x) = 0

FalsyText(x) == IsNone(x) \/ Val(x) = <<>>

\* str.strip(): the text without its leading and trailing blanks.
Strip(text) ==
  LET inked == {i \in 1..Len(text) : text[i] # " "}
  IN  IF inked = {} THEN <<>>
      ELSE SubSeq(text, CHOOSE i \in inked : \A j \in inked : i <= j,
                        CHOOSE i \in inked : \A j \in inked : i >= j)

\* The kinds and names of the activities, as texts.
KindRun == <<"R", "u", "n">>

KindRunning == <<"R", "u", "n", "n", "i", "n", "g">>

KindTrailRun == <<"T", "r", "a", "i", "l", "R", "u", "n">>

KindVirtualRun == <<"V", "i", "r", "t", "u", "a", "l", "R", "u", "n">>

KindRide == <<"R", "i", "d", "e">>

KindWorkout == <<"W", "o", "r", "k", "o", "u", "t">>

NameMorningRun == <<"M", "o", "r", "n", "i", "n", "g", " ", "R", "u", "n">>

NamePadded == <<" ", "T", "r", "a", "i", "l", " ">>

KindPadded == <<"R", "u", "n", " ">>

FalsyStamp(x) == IsNone(x) \/ Val(x).text = ""

\* a or b
Or(a, b) == IF Falsy(a) THEN b ELSE a

OrText(a, b) == IF FalsyText(a) THEN b ELSE a

OrStamp(a, b) == IF FalsyStamp(a) THEN b ELSE a

\* int(round(x or 0)) of a number held in tenths.
RoundTenthsOrZero(x) == IF Falsy(x) THEN 0 ELSE RoundHalfEven(Val(x), 10)

\* int(x or 0)
IntOrZero(x) == IF Falsy(x) THEN 0 ELSE Val(x)

\* storage.py, _parse_start_date: the first of start_date and
\* start_date_local that is present and parses, else None.
parse_start_date(payload) ==
  IF ~FalsyStamp(payload.start_date) /\ Parses(Val(payload.start_date))
  THEN Some(Val(payload.start_date).instant)
  ELSE IF ~FalsyStamp(payload.start_date_local) /\ Parses(Val(payload.start_date_local))
  THEN Some(Val(payload.start_date_local).instant)
  ELSE None

\* storage.py, save_or_update_activity, lines 183-201: the columns of the
\* row.  The heart rates are rounded to whole beats.
NormalizeActivity(payload) ==
  LET owner == Or(payload.athlete, payload.athlete_id)
  IN  [id |-> Val(payload.id),
       athlete_id |-> IF IsNone(owner) THEN 0 ELSE Val(owner),
       type |-> OrText(OrText(payload.sport_type, payload.type), None),
       start_date |-> parse_start_date(payload),
       name |-> payload.name,
       distance_m |-> RoundTenthsOrZero(payload.distance),
       moving_time_s |-> IntOrZero(payload.moving_time),
       elapsed_time_s |-> IntOrZero(payload.elapsed_time),
       total_elevation_gain_m |-> Some(RoundTenthsOrZero(payload.total_elevation_gain)),
       average_heartrate |->
         IF IsNone(payload.average_heartrate) THEN None
         ELSE Some(RoundHalfEven(Val(payload.average_heartrate), 10)),
       max_heartrate |->
         IF IsNone(payload.max_heartrate) THEN None
         ELSE Some(RoundHalfEven(Val(payload.max_heartrate), 10)),
       raw |-> payload]

\* storage_bak.py, save_or_update_activity, lines 144-166: the columns of
\* the row, for a payload with an id and a start time that parses.  The
\* heart rates are kept as floats (here: in tenths), a missing elevation is
\* None, the kind is read from "type" alone.
NormalizeActivityBak(act) ==
  [id |-> Val(act.id),
   athlete_id |-> IntOrZero(Or(Or(act.athlete, act.athlete_id), Some(0))),
   type |-> OrText(Some(Strip(Val(OrText(act.type, Some(<<>>))))), Some(KindWorkout)),
   start_date |-> Some(Val(OrStamp(act.start_date, act.start_date_local)).instant),
   name |-> Some(Strip(Val(OrText(act.name, Some(<<>>))))),
   distance_m |-> RoundTenthsOrZero(act.distance),
   moving_time_s |-> IntOrZero(act.moving_time),
   elapsed_time_s |-> IntOrZero(act.elapsed_time),
   total_elevation_gain_m |->
     IF IsNone(act.total_elevation_gain) THEN None
     ELSE Some(RoundHalfEven(Val(act.total_elevation_gain), 10)),
   average_heartrate |-> act.average_heartrate,
   max_heartrate |-> act.max_heartrate,
   raw |-> act]

\* db.get(Activity, act_id): the row of that key, or None.
ActivityGet(table, act_id) ==
  CHOOSE found \in
    { IF \E r \in table : r.id = key
      THEN Some(CHOOSE r \in table : r.id = key)
      ELSE None : key \in {act_id} } : TRUE

\* An update that adds the new distance and durations to the stored ones.
UpsertActivityAccumulating(table, row) ==
  LET existing == ActivityGet(table, row.id)
  IN  IF IsNone(existing) THEN table \cup {row}
      ELSE (table \ {Val(existing)})
             \cup {[row EXCEPT !.distance_m = Val(existing).distance_m + row.distance_m,
                               !.moving_time_s =
                                  Val(existing).moving_time_s + row.moving_time_s]}

\* storage.py lines 203-235 and storage_bak.py lines 168-198: the row is
\* added when the key has none; otherwise every column but the key is
\* overwritten.
UpsertActivity(table, row) ==
  LET existing == ActivityGet(table, row.id)
  IN  IF IsNone(existing) THEN table \cup {row}
      ELSE (table \ {Val(existing)})
             \cup {[Val(existing) EXCEPT
                      !.athlete_id = row.athlete_id,
                      !.type = row.type,
                      !.start_date = row.start_date,
                      !.name = row.name,
                      !.distance_m = row.distance_m,
                      !.moving_time_s = row.moving_time_s,
                      !.elapsed_time_s = row.elapsed_time_s,
                      !.total_elevation_gain_m = row.total_elevation_gain_m,
                      !.average_heartrate = row.average_heartrate,
                      !.max_heartrate = row.max_heartrate,
                      !.raw = row.raw]}

SaveResult(error, table) == [ok |-> error = "none", error |-> error, table |-> table]

\* storage.py, save_or_update_activity: int(None) raises TypeError for a
\* payload without an id; every other payload is stored.
save_or_update_activity(table, activity_payload) ==
  IF IsNone(activity_payload.id) THEN SaveResult("TypeError", table)
  ELSE SaveResult("none", UpsertActivity(table, NormalizeActivity(activity_payload)))

\* storage_bak.py, save_or_update_activity: act["id"] raises KeyError,
\* _to_utc_datetime raises ValueError for a start time that is missing or
\* does not parse.
save_or_update_activity_bak(table, act) ==
  IF IsNone(act.id) THEN SaveResult("KeyError", table)
  ELSE LET start_iso == OrStamp(act.start_date, act.start_date_local)
       IN  IF IsNone(start_iso) \/ ~Parses(Val(start_iso))
           THEN SaveResult("ValueError", table)
           ELSE SaveResult("none", UpsertActivity(table, NormalizeActivityBak(act)))

RUN_TYPES == {KindRun, KindRunning, KindTrailRun, KindVirtualRun}

\* A WHERE clause whose upper bound is exclusive.
MatchesBeforeEnd(a, athlete_id, start, end) ==
  /\ a.athlete_id = athlete_id
  /\ ~IsNone(a.start_date)
  /\ Val(a.start_date) >= start
  /\ Val(a.start_date) < end
  /\ ~IsNone(a.type)
  /\ Val(a.type) \in RUN_TYPES

\* The WHERE clause of query_runs; a NULL start_date or type matches
\* nothing.
Matches(a, athlete_id, start, end) ==
  /\ a.athlete_id = athlete_id
  /\ ~IsNone(a.start_date)
  /\ Val(a.start_date) >= start
  /\ Val(a.start_date) <= end
  /\ ~IsNone(a.type)
  /\ Val(a.type) \in RUN_TYPES

\* The dictionary query_runs builds of one row.
RunDict(a) ==
  [id |-> a.id,
   date |-> IsoText(Val(a.start_date)),
   name |-> a.name,
   distance_km |-> KmHundredths(a.distance_m),
   moving_time_min |-> RoundHalfEven(a.moving_time_s * 5, 3),
   avg_hr |-> a.average_heartrate,
   elev_gain_m |-> IF IsNone(a.total_elevation_gain_m) THEN 0
                   ELSE Val(a.total_elevation_gain_m),
   avg_pace |-> query_runs_pace(a.distance_m, a.moving_time_s)]

\* storage.py, query_runs: every list the query may return, the rows that
\* match in ascending order of start_date (the order of rows of equal
\* start_date is the database's choice).
query_runs(table, athlete_id, start, end) ==
  LET rows == {a \in table : Matches(a, athlete_id, start, end)}
      n == Cardinality(rows)
      orders == {f \in [1..n -> rows] :
                   /\ \A i, j \in 1..n : i # j => f[i] # f[j]
                   /\ \A i, j \in 1..n :
                        i < j => Val(f[i].start_date) <= Val(f[j].start_date)}
  IN  {[i \in 1..n |-> RunDict(f[i])] : f \in orders}

\* Bounds and inputs of the repository.
MaxId == 3

MaxInstant == 2

BasePayload ==
  [id |-> Some(1), athlete |-> Some(7), athlete_id |-> None,
   sport_type |-> None, type |-> Some(KindRun),
   start_date |-> Some(IsoText(1)), start_date_local |-> None,
   name |-> Some(NameMorningRun), distance |-> Some(50000),
   moving_time |-> Some(1500), elapsed_time |-> Some(1600),
   total_elevation_gain |-> Some(120), average_heartrate |-> Some(1500),
   max_heartrate |-> Some(1700)]

\* Payloads that take the fallbacks of the normalisation.
EdgePayloads ==
  { [BasePayload EXCEPT !.id = None],
    [BasePayload EXCEPT !.start_date = None],
    [BasePayload EXCEPT !.start_date = Some(Garbage),
                        !.start_date_local = Some(IsoText(MaxInstant))],
    [BasePayload EXCEPT !.sport_type = Some(KindTrailRun)],
    [BasePayload EXCEPT !.type = None, !.name = None],
    [BasePayload EXCEPT !.athlete = None, !.athlete_id = Some(8)],
    [BasePayload EXCEPT !.athlete = None],
    [BasePayload EXCEPT !.type = Some(KindPadded), !.name = Some(NamePadded)],
    [BasePayload EXCEPT !.distance = Some(50005), !.moving_time = None,
                        !.total_elevation_gain = None,
                        !.average_heartrate = None, !.max_heartrate = Some(1705)] }

RepoPayloads ==
  EdgePayloads
    \cup {[BasePayload EXCEPT !.id = Some(i), !.start_date = Some(IsoText(t))] :
            i \in 1..MaxId, t \in {1, MaxInstant}}

\* Runs of athlete 7 at every instant, and per identifier a ride of athlete
\* 7 and a trail run of athlete 8; two payloads that store no start time
\* and no kind.
QueryPayloads ==
  {[BasePayload EXCEPT !.id = Some(i), !.start_date = Some(IsoText(t))] :
     i \in 1..MaxId, t \in 1..MaxInstant}
    \cup {[BasePayload EXCEPT !.id = Some(i), !.type = Some(KindRide)] : i \in 1..MaxId}
    \cup {[BasePayload EXCEPT !.id = Some(i), !.athlete = Some(8),
                              !.sport_type = Some(KindTrailRun)] : i \in 1..MaxId}
    \cup {[BasePayload EXCEPT !.start_date = None],
          [BasePayload EXCEPT !.type = None]}

\* One ingestion, by the module the deployment imports.
SaveOrUpdateActivity(p) ==
  /\ LET res == IF impl = "storage" THEN save_or_update_activity(activities, p)
                ELSE save_or_update_activity_bak(activities, p)
     IN  /\ activities' = res.table
         /\ rlast' = [op |-> "save", payload |-> p, ok |-> res.ok,
                      error |-> res.error,
                      repeat |-> /\ rlast.op = "save"
                                 /\ rlast.ok
                                 /\ rlast.payload = p]
  /\ UNCHANGED <<impl, varsPace, varsStats, varsTokens, varsAux>>

\* One range query.
QueryRuns(athlete_id, start, end) ==
  /\ impl = "storage"
  /\ \E out \in query_runs(activities, athlete_id, start, end) :
       rlast' = [op |-> "query", athlete_id |-> athlete_id, start |-> start,
                 end |-> end, out |-> out]
  /\ UNCHANGED <<activities, impl, varsPace, varsStats, varsTokens, varsAux>>

InitRepo ==
  /\ impl \in {"storage", "storage_bak"}
  /\ RepoIdle
  /\ AuxIdle
  /\ PaceIdle
  /\ StatsIdle
  /\ TokensIdle

NextRepo == \E p \in RepoPayloads : SaveOrUpdateActivity(p)

SpecRepo == InitRepo /\ [][NextRepo]_vars

InitQuery ==
  /\ impl = "storage"
  /\ RepoIdle
  /\ AuxIdle
  /\ PaceIdle
  /\ StatsIdle
  /\ TokensIdle

NextQuery ==
  \/ \E p \in QueryPayloads : SaveOrUpdateActivity(p)
  \/ \E a \in Athletes, start \in 1..MaxInstant, end \in 1..MaxInstant :
       start <= end /\ QueryRuns(a, start, end)

SpecQuery == InitQuery /\ [][NextQuery]_vars

\* C1: ingesting the same accepted payload a second time leaves the
\* repository as the first ingestion left it, with exactly one record of
\* that identifier.
C1_ReingestionChangesNothing ==
  [][(rlast'.op = "save" /\ rlast'.repeat) =>
       /\ activities' = activities
       /\ Cardinality({r \in activities' : r.id = Val(rlast'.payload.id)}) = 1]_vars

C1_Witness ==
  /\ rlast.op = "save"
  /\ rlast.repeat
  /\ rlast.ok
  /\ Cardinality(activities) = 2

\* The stored rows a range query is to return.
Wanted(athlete_id, start, end) ==
  {a \in activities :
     /\ a.athlete_id = athlete_id
     /\ a.type \in {Some(k) : k \in RUN_TYPES}
     /\ \E t \in start..end : a.start_date = Some(t)}

\* C10: a range query returns, without error, exactly the stored records of
\* that user whose kind is a running kind and whose start instant lies in
\* [start, end], both bounds included, each once, in ascending order of
\* start instant; the empty list when there is none.
C10_QueryReturnsWindow ==
  /\ \A a \in Athletes, start \in 1..MaxInstant, end \in 1..MaxInstant :
       query_runs(activities, a, start, end) # {}
  /\ rlast.op = "query" =>
       LET out == rlast.out
           want == Wanted(rlast.athlete_id, rlast.start, rlast.end)
       IN  /\ Len(out) = Cardinality(want)
           /\ {out[i].id : i \in 1..Len(out)} = {a.id : a \in want}
           /\ \A i \in 1..Len(out) :
                \E a \in want : out[i].id = a.id
                                  /\ out[i].date = IsoText(Val(a.start_date))
                                  /\ out[i].name = a.name
           /\ \A i, j \in 1..Len(out) :
                i < j => out[i].date.instant <= out[j].date.instant

C10_Witness ==
  /\ rlast.op = "query"
  /\ Len(rlast.out) = 2
  /\ rlast.out[1].date.instant < rlast.out[2].date.instant
  /\ rlast.out[1].date.instant = rlast.start
  /\ rlast.out[2].date.instant = rlast.end
  /\ \E a \in activities : a.athlete_id = rlast.athlete_id /\ a.type = Some(KindRide)

-----------------------------------------------------------------------------
(* Ingestion followed by a range query over calendar days.  Instants are   *)
(* counted in hours; a day d starts at hour 24 * d.                        *)

MaxDay == 2

\* The instant a date stands for when it is compared with a timestamp
\* column: the midnight that starts the day.
DayStart(d) == 24 * d

\* The payload {id, type: "Run", start_date, distance: 5000,
\* moving_time: 1500, average_heartrate: 160}, with the owner not given,
\* given as athlete.id, or given as athlete_id.
ScenarioPayload(id, owner, day, hour) ==
  [id |-> Some(id),
   athlete |-> IF owner = "athlete" THEN Some(7) ELSE None,
   athlete_id |-> IF owner = "athlete_id" THEN Some(7) ELSE None,
   sport_type |-> None, type |-> Some(KindRun),
   start_date |-> Some(IsoText(DayStart(day) + hour)), start_date_local |-> None,
   name |-> None, distance |-> Some(50000), moving_time |-> Some(1500),
   elapsed_time |-> None, total_elevation_gain |-> None,
   average_heartrate |-> Some(1600), max_heartrate |-> None]

ScenarioPayloads ==
  {ScenarioPayload(id, owner, day, hour) :
     id \in {42, 43}, owner \in {"none", "athlete", "athlete_id"},
     day \in 1..MaxDay, hour \in {0, 7}}

\* query_runs called with dates for bounds, the days d1..d2 (the callers
\* refuse d2 < d1).
QueryRunsOfDays(athlete_id, d1, d2) ==
  /\ d2 >= d1
  /\ QueryRuns(athlete_id, DayStart(d1), DayStart(d2))

InitScenario ==
  /\ impl = "storage"
  /\ RepoIdle
  /\ AuxIdle
  /\ PaceIdle
  /\ StatsIdle
  /\ TokensIdle

NextScenario ==
  \/ \E p \in ScenarioPayloads : SaveOrUpdateActivity(p)
  \/ \E a \in {0, 7}, d1 \in 1..MaxDay, d2 \in 1..MaxDay : QueryRunsOfDays(a, d1, d2)

SpecScenario == InitScenario /\ [][NextScenario]_vars

\* C11: when the repository holds the one record ingested from the payload
\* {id: 42, type: "Run", start_date: day d at 07:00, distance: 5000,
\* moving_time: 1500, average_heartrate: 160}, the range query of user 7
\* over the single day d returns exactly one record, of 5.00 km at
\* "5:00 min/km".
C11_EndToEnd ==
  \A d \in 1..MaxDay :
    ( /\ rlast.op = "query"
      /\ rlast.athlete_id = 7
      /\ rlast.start = DayStart(d)
      /\ rlast.end = DayStart(d)
      /\ activities = {NormalizeActivity(ScenarioPayload(42, "none", d, 7))} )
    => /\ Len(rlast.out) = 1
       /\ rlast.out[1].id = 42
       /\ rlast.out[1].distance_km = 500
       /\ rlast.out[1].avg_pace = PaceText(5, 0)

\* C16: ingesting a payload that has no activity id fails with a
\* MalformedPayloadError and leaves the repository as it was.
C16_MissingIdIsMalformed ==
  [][(rlast'.op = "save" /\ IsNone(rlast'.payload.id)) =>
       /\ rlast'.error = "MalformedPayloadError"
       /\ activities' = activities]_vars

\* C17: ingesting a payload whose start time is missing or does not parse
\* fails with a MalformedPayloadError, and no record of the repository has
\* an absent start instant.
C17_NoRecordWithoutStart ==
  /\ \A a \in activities : ~IsNone(a.start_date)
  /\ (rlast.op = "save" /\ IsNone(parse_start_date(rlast.payload))) =>
       rlast.error = "MalformedPayloadError"

-----------------------------------------------------------------------------
(* The comparison of two periods (app/stats.py, compare_runs).  A pace in  *)
(* seconds per kilometre is a quotient, kept as numerator and denominator. *)

\* stats.py, _pace_sec_per_km: None, or seconds / (meters / 1000.0).
pace_sec_per_km(seconds, meters) ==
  IF meters <= 0 \/ seconds <= 0 THEN None
  ELSE Some([num |-> seconds * 1000, den |-> meters])

\* stats.py, _fmt_mmss, of a quotient that is not negative.
fmt_mmss(num, den) ==
  LET sec == RoundHalfEven(num, den)
  IN  ClockText(sec \div 60, sec % 60)

\* stats.py, compare_runs, totals.
totals(rs) ==
  LET dist == SumOf(rs, "distance_m")
      movs == SumOf(rs, "moving_time_s")
  IN  [dist |-> dist, movs |-> movs,
       elev |-> SumOf(rs, "total_elevation_gain_m"),
       avg_hr |-> AvgHrTruncated(rs),
       pace_sec |-> pace_sec_per_km(movs, dist)]

TagFaster == <<"m", "á", "s", " ", "r", "á", "p", "i", "d", "o">>

TagSlower == <<"m", "á", "s", " ", "l", "e", "n", "t", "o">>

Abs(n) == IF n < 0 THEN -n ELSE n

\* lines 105-108: f"{tag} {_fmt_mmss(abs(sec))} /km", sec the previous pace
\* less the current one; None when either pace is None.
PaceChangeText(c_pace_sec, p_pace_sec) ==
  IF IsNone(c_pace_sec) \/ IsNone(p_pace_sec) THEN None
  ELSE LET c == Val(c_pace_sec)
           p == Val(p_pace_sec)
           num == p.num * c.den - c.num * p.den
           den == p.den * c.den
           tag == IF num > 0 THEN TagFaster ELSE TagSlower
       IN  Some(tag \o <<" ">> \o fmt_mmss(Abs(num), den) \o <<" ", "/", "k", "m">>)

\* The sentences of the advice, each one piece of text.
AdviceOverload ==
  <<"Has subido el volumen >25%: reduce a incrementos ~10-15% para evitar sobrecarga.">>

AdviceRebuild == <<"Bajaste mucho el volumen: recupera de forma progresiva.">>

\* (the source writes the range with an en dash)
AdviceRestart == <<"Reinicio de entrenos: escala la carga +5-10% semanal.">>

AdviceEfficient == <<"Mejora eficiente: mejor ritmo con FC controlada.">>

AdviceFatigue == <<"Ritmo peor y FC más alta: posible fatiga, considera descarga.">>

AdviceSteady == <<"Mantén progresión estable y revisa técnica/zonas.">>

\* " ".join(advice)
RECURSIVE Join(_)
Join(advice) ==
  IF advice = <<>> THEN <<>>
  ELSE IF Len(advice) = 1 THEN advice[1]
  ELSE advice[1] \o <<" ">> \o Join(Tail(advice))

\* The volume rule tested on distance alone, whatever the previous distance.
VolumeAdviceWithoutRestart(c_dist, p_dist) ==
  IF (c_dist - p_dist) * 100 > 25 * p_dist THEN <<AdviceOverload>>
  ELSE IF (c_dist - p_dist) * 100 < (-20) * p_dist THEN <<AdviceRebuild>>
  ELSE <<>>

\* lines 115-122: the advice on volume.
VolumeAdvice(c_dist, p_dist) ==
  IF p_dist > 0
  THEN IF (c_dist - p_dist) * 100 > 25 * p_dist THEN <<AdviceOverload>>
       ELSE IF (c_dist - p_dist) * 100 < (-20) * p_dist THEN <<AdviceRebuild>>
       ELSE <<>>
  ELSE IF c_dist > 0 /\ p_dist = 0 THEN <<AdviceRestart>>
  ELSE <<>>

\* lines 124-129: the advice on pace and heart rate.
PaceAdvice(change_text, hr_change) ==
  IF IsNone(change_text) THEN <<>>
  ELSE LET faster == Contains(Val(change_text), TagFaster)
       IN  (IF faster /\ (IsNone(hr_change) \/ Val(hr_change) <= 2)
            THEN <<AdviceEfficient>> ELSE <<>>)
           \o
           (IF ~faster /\ ~Falsy(hr_change) /\ Val(hr_change) >= 3
            THEN <<AdviceFatigue>> ELSE <<>>)

\* stats.py, compare_runs.
compare_runs(curr, prev) ==
  LET c == totals(curr)
      p == totals(prev)
      current == summarize_runs(curr)
      previous == summarize_runs(prev)
      change_text == PaceChangeText(c.pace_sec, p.pace_sec)
      hr_change == IF ~IsNone(c.avg_hr) /\ ~IsNone(p.avg_hr)
                   THEN Some(Val(c.avg_hr) - Val(p.avg_hr)) ELSE None
      diff == [sessions |-> current.sessions - previous.sessions,
               distance_km |-> current.distance_km - previous.distance_km,
               moving_time_h |-> current.moving_time_h - previous.moving_time_h,
               elev_gain_m |-> current.elev_gain_m - previous.elev_gain_m,
               avg_pace_change_text |-> change_text,
               avg_hr_change |-> hr_change]
      found == VolumeAdvice(c.dist, p.dist) \o PaceAdvice(change_text, hr_change)
      advice == IF found = <<>> THEN <<AdviceSteady>> ELSE found
  IN  [current |-> current, previous |-> previous, diff |-> diff,
       advice |-> Join(advice)]

\* Bound and inputs of the comparison.
MaxCompareRuns == 1

\* Short runs, so that the products of the quotients stay small.
CompareRecords ==
  [distance_m : {0, 400, 500, 800}, moving_time_s : {150},
   total_elevation_gain_m : {12}, average_heartrate : {None, Some(150), Some(154)},
   raw : {None}]

CompareLists == UNION {[1..n -> CompareRecords] : n \in 0..MaxCompareRuns}

InitCompare ==
  /\ cmp \in [op : {"input"}, curr : CompareLists, prev : CompareLists]
  /\ win = NoCall
  /\ workers = NoWorkers
  /\ sweep = NoCall
  /\ rotation = NoCall
  /\ impl = "storage"
  /\ PaceIdle
  /\ StatsIdle
  /\ TokensIdle
  /\ RepoIdle

CompareRuns ==
  /\ cmp.op = "input"
  /\ cmp' = [op |-> "compare_runs", curr |-> cmp.curr, prev |-> cmp.prev,
             out |-> compare_runs(cmp.curr, cmp.prev)]
  /\ UNCHANGED <<rotation, win, workers, sweep, impl, varsPace, varsStats, varsTokens, varsRepo>>

NextCompare == CompareRuns

SpecCompare == InitCompare /\ [][NextCompare]_vars

\* C12: when the previous period's total distance is 0 and the current
\* period's is above 0, the advice of the comparison contains the advisory
\* on resuming from zero and contains neither the advisory on a volume
\* increase nor the one on a volume decrease.
C12_RestartAdvice ==
  ( /\ cmp.op = "compare_runs"
    /\ SumOf(cmp.prev, "distance_m") = 0
    /\ SumOf(cmp.curr, "distance_m") > 0 )
  => /\ Contains(cmp.out.advice, AdviceRestart)
     /\ ~Contains(cmp.out.advice, AdviceOverload)
     /\ ~Contains(cmp.out.advice, AdviceRebuild)

C12_Witness ==
  /\ cmp.op = "compare_runs"
  /\ Len(cmp.prev) = 1
  /\ SumOf(cmp.prev, "distance_m") = 0
  /\ SumOf(cmp.curr, "distance_m") = 500
  /\ cmp.out.advice = AdviceRestart

-----------------------------------------------------------------------------
(* The comparison of a window of days with the window before it            *)
(* (app/main.py, stats_compare).  A date is a record of year, month and    *)
(* day of the year 2025; a date text is its ISO form, as characters.       *)

DaysInMonth(m) ==
  CASE m \in {1, 3, 5, 7, 8, 10, 12} -> 31
    [] m = 2 -> 28
    [] OTHER -> 30

RECURSIVE DaysBefore(_)
DaysBefore(m) == IF m = 1 THEN 0 ELSE DaysBefore(m - 1) + DaysInMonth(m - 1)

\* The day of the year of a date, and the date of a day of the year.
ToOrdinal(date) == DaysBefore(date.month) + date.day

FromOrdinal(n) ==
  LET m == CHOOSE m \in 1..12 : DaysBefore(m) < n /\ n <= DaysBefore(m) + DaysInMonth(m)
  IN  [year |-> 2025, month |-> m, day |-> n - DaysBefore(m)]

\* date - timedelta(days=k)
MinusDays(date, k) == FromOrdinal(ToOrdinal(date) - k)

\* date.isoformat()
DateText(date) ==
  DecimalChars(date.year) \o <<"-">> \o TwoDigits(date.month) \o <<"-">>
    \o TwoDigits(date.day)

\* main.py, parse_ymd: the date of a text "YYYY-MM-DD", or None where
\* strptime raises (the handler answers 400).
parse_ymd(text) ==
  IF /\ Len(text) = 10
     /\ text[5] = "-"
     /\ text[8] = "-"
     /\ \A i \in {1, 2, 3, 4, 6, 7, 9, 10} : IsDigit(text[i])
  THEN LET y == ParseDigits(SubSeq(text, 1, 4))
           m == ParseDigits(SubSeq(text, 6, 7))
           d == ParseDigits(SubSeq(text, 9, 10))
       IN  IF m \in 1..12 /\ d >= 1 /\ d <= DaysInMonth(m)
           THEN Some([year |-> y, month |-> m, day |-> d])
           ELSE None
  ELSE None

\* A previous window that ends on the first day of the primary one.
PreviousWindowEndingAtStart(d1, d2, prev_weeks) ==
  IF ~Falsy(prev_weeks) /\ Val(prev_weeks) > 0
  THEN [start |-> MinusDays(d1, Val(prev_weeks) * 7), end |-> d1]
  ELSE LET window == (ToOrdinal(d2) - ToOrdinal(d1)) + 1
       IN  [start |-> MinusDays(d1, window - 1), end |-> d1]

\* stats_compare, lines 363-370: the previous window of [d1, d2].
PreviousWindow(d1, d2, prev_weeks) ==
  IF ~Falsy(prev_weeks) /\ Val(prev_weeks) > 0
  THEN LET days == Val(prev_weeks) * 7
       IN  [start |-> MinusDays(d1, days), end |-> MinusDays(d1, 1)]
  ELSE LET window == (ToOrdinal(d2) - ToOrdinal(d1)) + 1
           prev_end == MinusDays(d1, 1)
       IN  [start |-> MinusDays(prev_end, window - 1), end |-> prev_end]

\* A stored row as the summaries read it.
RowAsRun(a) ==
  [distance_m |-> a.distance_m, moving_time_s |-> a.moving_time_s,
   total_elevation_gain_m |-> IF IsNone(a.total_elevation_gain_m) THEN 0
                              ELSE Val(a.total_elevation_gain_m),
   average_heartrate |-> a.average_heartrate, raw |-> Some(a.raw)]

\* query_runs(d1, d2) as main.py calls it, with two dates and no user: the
\* stored runs that start from the midnight of d1 to the midnight of d2, in
\* ascending order of start.
query_runs_of_days(table, d1, d2) ==
  LET rows == {a \in table :
                 /\ ~IsNone(a.start_date)
                 /\ Val(a.start_date) >= DayStart(ToOrdinal(d1))
                 /\ Val(a.start_date) <= DayStart(ToOrdinal(d2))
                 /\ ~IsNone(a.type)
                 /\ Val(a.type) \in RUN_TYPES}
      n == Cardinality(rows)
  IN  {[i \in 1..n |-> RowAsRun(f[i])] :
         f \in {g \in [1..n -> rows] :
                  /\ \A i, j \in 1..n : i # j => g[i] # g[j]
                  /\ \A i, j \in 1..n :
                       i < j => Val(g[i].start_date) <= Val(g[j].start_date)}}

\* stats_compare, summarize (lines 347-361), from the runs of the window on.
summarize_window(rs) ==
  LET total_dist_m == SumOf(rs, "distance_m")
      total_time_s == SumOf(rs, "moving_time_s")
  IN  [sessions |-> Len(rs),
       distance_km |-> KmHundredths(total_dist_m),
       moving_time_h |-> HourHundredths(total_time_s),
       elev_gain_m |-> SumOf(rs, "total_elevation_gain_m"),
       avg_pace |-> IF total_dist_m > 0 THEN format_pace(total_time_s, total_dist_m)
                    ELSE None,
       avg_hr |-> AvgHrRounded(rs)]

\* main.py, stats_compare: the answers the handler may give.
stats_compare(table, start, end, prev_weeks) ==
  LET d1 == parse_ymd(start)
      d2 == parse_ymd(end)
  IN  IF IsNone(d1) \/ IsNone(d2)
      THEN {[status |-> 400, detail |-> "Fecha inválida"]}
      ELSE IF ToOrdinal(Val(d2)) < ToOrdinal(Val(d1))
      THEN {[status |-> 400, detail |-> "end debe ser >= start"]}
      ELSE LET prev == PreviousWindow(Val(d1), Val(d2), prev_weeks)
           IN  {[status |-> 200,
                 current |-> summarize_window(c),
                 previous |-> summarize_window(p),
                 previous_range |-> [start |-> DateText(prev.start),
                                     end |-> DateText(prev.end)]] :
                  c \in query_runs_of_days(table, Val(d1), Val(d2)),
                  p \in query_runs_of_days(table, prev.start, prev.end)}

\* Bounds and inputs of the comparison of windows.
MaxWeeks == 2

WindowDates ==
  {[year |-> 2025, month |-> 2, day |-> 27], [year |-> 2025, month |-> 2, day |-> 28],
   [year |-> 2025, month |-> 3, day |-> 1], [year |-> 2025, month |-> 3, day |-> 2]}

WindowTexts ==
  {DateText(d) : d \in WindowDates}
    \cup {DateText([year |-> 2025, month |-> 2, day |-> 30])}

WindowWeeks == {None, Some(-1)} \cup {Some(n) : n \in 0..MaxWeeks}

\* No run, a run on the 1st of March and one on the 22nd of February.
WindowTables ==
  { {},
    {NormalizeActivity(ScenarioPayload(42, "athlete", 60, 0)),
     NormalizeActivity(ScenarioPayload(43, "athlete", 53, 0))} }

InitWindow ==
  /\ win \in [op : {"input"}, start : WindowTexts, end : WindowTexts,
              prev_weeks : WindowWeeks]
  /\ activities \in WindowTables
  /\ rlast = NoRepoCall
  /\ cmp = NoCall
  /\ workers = NoWorkers
  /\ sweep = NoCall
  /\ rotation = NoCall
  /\ impl = "storage"
  /\ PaceIdle
  /\ StatsIdle
  /\ TokensIdle

StatsCompare ==
  /\ win.op = "input"
  /\ \E out \in stats_compare(activities, win.start, win.end, win.prev_weeks) :
       win' = [op |-> "stats_compare", start |-> win.start, end |-> win.end,
               prev_weeks |-> win.prev_weeks, out |-> out]
  /\ UNCHANGED <<rotation, cmp, workers, sweep, impl, varsPace, varsStats, varsTokens, varsRepo>>

NextWindow == StatsCompare

SpecWindow == InitWindow /\ [][NextWindow]_vars

\* The day of the year a date text names.
DayOf(text) == ToOrdinal(Val(parse_ymd(text)))

-----------------------------------------------------------------------------
(* Summaries of runs whose raw payloads hold best-effort entries.          *)

MaxEffortRuns == 2

EffortEntries ==
  { [name |-> <<"5", "k">>, elapsed_time |-> 1480],
    [name |-> <<"5", "K">>, elapsed_time |-> 1400],
    [name |-> <<"1", "0", "k">>, elapsed_time |-> 3100],
    [name |-> <<"H", "a", "l", "f", " ", "M", "a", "r", "a", "t", "h", "o", "n">>,
     elapsed_time |-> 6400] }

EffortLists == UNION {[1..n -> EffortEntries] : n \in 0..2}

EffortRuns ==
  [distance_m : {10000}, moving_time_s : {3000}, total_elevation_gain_m : {12},
   average_heartrate : {Some(150)},
   raw : {None} \cup {Some([best_efforts |-> be]) : be \in EffortLists}]

InitEfforts ==
  /\ runs \in UNION {[1..n -> EffortRuns] : n \in 0..MaxEffortRuns}
  /\ summary = NoSummary
  /\ PaceIdle
  /\ impl = "storage"
  /\ TokensIdle
  /\ RepoIdle
  /\ AuxIdle

NextEfforts == SummarizeRuns \/ StatsSummary

SpecEfforts == InitEfforts /\ [][NextEfforts]_vars

\* The labels of a standard distance, and the elapsed times of the entries
\* of all records that match them.
LabelsOf(k) ==
  CASE k = "5k" -> {Label5k} [] k = "10k" -> {Label10k} [] k = "21k" -> LabelsHalf

ElapsedOf(rs, k) ==
  {e.elapsed_time :
     e \in UNION {{Val(rs[i].raw).best_efforts[j] :
                     j \in 1..Len(Val(rs[i].raw).best_efforts)} :
                  i \in {i \in 1..Len(rs) : ~IsNone(rs[i].raw)}} \cap
           {e \in EffortEntries : \E x \in LabelsOf(k) : Contains(Lower(e.name), x)}}

\* C19: for each of the three standard distances the summary's best effort
\* is the least elapsed time of the best-effort entries, of all records,
\* whose name matches the labels of the distance, as minutes:seconds; it is
\* absent when no entry matches.  (A function of the set of entries, hence
\* of no order.)
C19_BestEffortIsMinimum ==
  (summary.fn # "none" /\ runs # <<>>) =>
    \A k \in BestKeys :
      LET times == ElapsedOf(runs, k)
      IN  DictGet(summary.best_efforts, k) =
            IF times = {} THEN None
            ELSE LET least == CHOOSE t \in times : \A u \in times : t <= u
                 IN  ClockText(least \div 60, least % 60)

-----------------------------------------------------------------------------
(* Ingestions that run at the same time, each in a database session of its *)
(* own (save_or_update_activity opens one per call).  A session reads the  *)
(* row of the key with db.get and writes at db.commit; sessions of other   *)
(* processes may commit in between.                                        *)

Workers == {1, 2}

IdleWorker == [pc |-> "idle"]

\* Payloads of one activity that differ in one field each.
ConcurrentPayloads ==
  { BasePayload,
    [BasePayload EXCEPT !.name = Some(NamePadded)],
    [BasePayload EXCEPT !.distance = Some(80000)] }

NormalizeBy(module, payload) ==
  IF module = "storage" THEN NormalizeActivity(payload)
  ELSE NormalizeActivityBak(payload)

\* The flush of an object that db.get returned: an UPDATE of the row of the
\* key that sets the columns whose value the session changed, and no other.
FlushUpdate(table, loaded, row) ==
  {IF a.id = row.id
   THEN [f \in DOMAIN a |-> IF row[f] # loaded[f] THEN row[f] ELSE a[f]]
   ELSE a : a \in table}

\* The flush of an object the session added: an INSERT, refused with an
\* IntegrityError when the key has a row by now.
FlushInsert(table, row) ==
  IF \E a \in table : a.id = row.id
  THEN [ok |-> FALSE, table |-> table]
  ELSE [ok |-> TRUE, table |-> table \cup {row}]

\* save_or_update_activity up to db.get: the columns are computed and the
\* row of the key is read.
BeginSave(w, p) ==
  /\ workers[w].pc \in {"idle", "done", "failed"}
  /\ workers' = [workers EXCEPT ![w] =
                   [pc |-> "loaded", payload |-> p,
                    row |-> NormalizeBy(impl, p),
                    existing |-> ActivityGet(activities, Val(p.id))]]
  /\ UNCHANGED <<rotation, cmp, win, sweep, impl, varsPace, varsStats, varsTokens, varsRepo>>

\* save_or_update_activity from db.get on: the object is added or its
\* attributes are set, and db.commit writes.
CommitSave(w) ==
  /\ workers[w].pc = "loaded"
  /\ LET me == workers[w]
     IN  IF IsNone(me.existing)
         THEN LET res == FlushInsert(activities, me.row)
              IN  /\ activities' = res.table
                  /\ workers' = [workers EXCEPT ![w] =
                                   [pc |-> IF res.ok THEN "done" ELSE "failed",
                                    payload |-> me.payload]]
         ELSE /\ activities' = FlushUpdate(activities, Val(me.existing), me.row)
              /\ workers' = [workers EXCEPT ![w] =
                               [pc |-> "done", payload |-> me.payload]]
  /\ UNCHANGED <<rotation, rlast, cmp, win, sweep, impl, varsPace, varsStats, varsTokens>>

InitConcurrent ==
  /\ impl \in {"storage", "storage_bak"}
  /\ workers = [w \in Workers |-> IdleWorker]
  /\ cmp = NoCall
  /\ win = NoCall
  /\ sweep = NoCall
  /\ rotation = NoCall
  /\ RepoIdle
  /\ PaceIdle
  /\ StatsIdle
  /\ TokensIdle

NextConcurrent ==
  \/ \E w \in Workers, p \in ConcurrentPayloads : BeginSave(w, p)
  \/ \E w \in Workers : CommitSave(w)

SpecConcurrent == InitConcurrent /\ [][NextConcurrent]_vars

\* C14: while ingestions of one activity identifier run at the same time,
\* the repository holds for that identifier no record or the whole record
\* of one of the payloads, never a record that mixes the fields of two
\* payloads and never two records, and no ingestion fails.
C14_UpsertsAreAtomic ==
  /\ \A a, b \in activities : a.id = b.id => a = b
  /\ \A a \in activities : \E p \in ConcurrentPayloads : a = NormalizeBy(impl, p)
  /\ \A w \in Workers : workers[w].pc # "failed"

-----------------------------------------------------------------------------
(* The historical import (app/main.py, fetch_activities_since).  Upstream  *)
(* holds n activities, numbered from 1; at most one of them is malformed,  *)
(* without an id or without a start time.  The coroutine gives way at its  *)
(* awaits only: the refresh check, and the request of a page.              *)

per_page == 200

MaxPages == 2

\* The activity upstream lists at position i.
ItemAt(up, i) ==
  LET item == [BasePayload EXCEPT !.id = Some(i)]
  IN  IF i # up.bad THEN item
      ELSE IF up.kind = "id" THEN [item EXCEPT !.id = None]
      ELSE [item EXCEPT !.start_date = None]

\* The answer to page k of the listing with per_page items a page.
PageItems(up, k) ==
  LET first == (k - 1) * per_page
      len == IF up.n - first >= per_page THEN per_page
             ELSE IF up.n > first THEN up.n - first ELSE 0
  IN  [i \in 1..len |-> ItemAt(up, first + i)]

\* lines 121-123: the items of a page are saved one after the other, each
\* counted once saved; the first save that raises ends the loop and the
\* sweep.  (The loop over items[lo..hi] is unfolded by halves; the state of
\* the loop and the middle index are bound so that each is computed once.)
RECURSIVE SaveRange(_, _, _, _)
SaveRange(acc, items, lo, hi) ==
  CHOOSE out \in
    { IF a.error # "none" \/ lo > hi THEN a
      ELSE IF lo = hi
      THEN CHOOSE one \in
             { IF res.ok
               THEN [error |-> "none", table |-> res.table, total |-> a.total + 1]
               ELSE [error |-> res.error, table |-> res.table, total |-> a.total]
               : res \in {save_or_update_activity(a.table, items[lo])} } : TRUE
      ELSE SaveRange(SaveRange(a, items, lo, mid), items, mid + 1, hi)
      : a \in {acc}, mid \in {(lo + hi) \div 2} } : TRUE

SaveItems(table, items, total) ==
  CHOOSE out \in
    { SaveRange([error |-> "none", table |-> table, total |-> total], page, 1, Len(page))
      : page \in {items} } : TRUE

\* A page that is not full is the last one.
LastPageAlways(items) == TRUE

\* line 125: len(items) < per_page
LastPage(items) == Len(items) < per_page

\* Credentials of athlete 7 that expire in 30, 61 and 3600 seconds.
ImportTokens ==
  UNION {upsert_token({}, 7, "a1", "r1", e, Some("read")) : e \in {30, 61, 3600}}

ImportRefreshResponses ==
  { [status |-> 200,
     body |-> [access_token |-> "a2", refresh_token |-> "r2", expires_at |-> 3600,
               scope |-> Some("read")]],
    [status |-> 401, body |-> ErrorBody] }

Upstreams ==
  {u \in {[n |-> n, bad |-> b, kind |-> k] :
            n \in {0, 1} \cup {j * per_page : j \in 1..MaxPages} \cup {per_page + 1},
            b \in {0, 1, per_page + 1}, k \in {"id", "start"}} :
     /\ u.bad <= u.n
     /\ u.bad = 0 => u.kind = "id"
     /\ u.bad # 0 => u.n <= per_page + 1}

\* The sweeps that are run: every upstream with the credential that lasts,
\* and the well-formed upstreams of at most two pages with every credential.
ImportInputs ==
  {<<t, u>> \in ImportTokens \X Upstreams :
     t.expires_at = 3600 \/ (u.bad = 0 /\ u.n <= per_page + 1)}

InitImport ==
  /\ impl = "storage"
  /\ \E input \in ImportInputs :
       /\ tokens = {input[1]}
       /\ sweep = [op |-> "import", pc |-> "start", upstream |-> input[2]]
  /\ now = 0
  /\ tlast = NoTokenCall
  /\ cmp = NoCall
  /\ win = NoCall
  /\ workers = NoWorkers
  /\ rotation = NoCall
  /\ RepoIdle
  /\ PaceIdle
  /\ StatsIdle

\* lines 99-103: the counters are set and the credential is checked once.
ImportStart(tok, resp) ==
  /\ sweep.op = "import"
  /\ sweep.pc = "start"
  /\ tok \in tokens
  /\ ClientConfigured
  /\ LET out == ensure_fresh_access_token(tokens, tok, now, resp)
     IN  /\ tokens' = out.store
         /\ tlast' = RefreshRecord("ensure_fresh_access_token", tok, resp, out)
         /\ sweep' =
              IF out.returned
              THEN [op |-> "import", pc |-> "paging", upstream |-> sweep.upstream,
                    tok |-> out.mem, checked |-> TRUE, page |-> 1, total |-> 0,
                    requests |-> <<>>, error |-> "none"]
              ELSE [op |-> "import", pc |-> "failed", upstream |-> sweep.upstream,
                    tok |-> out.mem, checked |-> TRUE, page |-> 1, total |-> 0,
                    requests |-> <<>>, error |-> "refresh"]
  /\ UNCHANGED <<rotation, now, cmp, win, workers, impl, varsPace, varsStats, varsRepo>>

\* lines 107-127: one turn of the loop.  The page is requested with the
\* access token in memory (the request notes whether the credential was
\* checked since the request before, and whether it is beyond the margin); a status of 400 or more raises, an empty page
\* ends the sweep, the items are saved, and a page shorter than per_page
\* ends the sweep.
ImportPage(status) ==
  /\ sweep.op = "import"
  /\ sweep.pc = "paging"
  /\ \E items \in {PageItems(sweep.upstream, sweep.page)} :
     \E asked \in
        {[sweep EXCEPT
            !.requests =
               Append(@, [page |-> sweep.page,
                          access_token |-> sweep.tok.access_token,
                          checked |-> sweep.checked,
                          fresh |-> sweep.tok.expires_at > now + RefreshMargin,
                          total |-> sweep.total, rows |-> Cardinality(activities),
                          items |-> IF status >= 400 THEN 0 ELSE Len(items)]),
            !.checked = FALSE]} :
         IF status >= 400
         THEN /\ sweep' = [asked EXCEPT !.pc = "failed", !.error = "upstream"]
              /\ UNCHANGED activities
         ELSE IF items = <<>>
         THEN /\ sweep' = [asked EXCEPT !.pc = "returned"]
              /\ UNCHANGED activities
         ELSE \E res \in {SaveItems(activities, items, sweep.total)} :
                  /\ activities' = res.table
                  /\ sweep' =
                       IF res.error # "none"
                       THEN [asked EXCEPT !.pc = "failed", !.error = res.error,
                                          !.total = res.total]
                       ELSE IF LastPage(items)
                       THEN [asked EXCEPT !.pc = "returned", !.total = res.total]
                       ELSE [asked EXCEPT !.page = @ + 1, !.total = res.total]
  /\ UNCHANGED <<rotation, rlast, tokens, now, tlast, cmp, win, workers, impl, varsPace, varsStats>>

Sweeping ==
  \/ \E tok \in tokens, resp \in ImportRefreshResponses : ImportStart(tok, resp)
  \/ \E status \in {200, 500} : ImportPage(status)

NextImport == Sweeping \/ Tick

SpecImport == InitImport /\ [][NextImport]_vars

\* The scheduler runs a coroutine that is ready, and upstream answers.
SpecImportFair == InitImport /\ [][NextImport]_vars /\ WF_vars(Sweeping)

\* What holds of a sweep at every moment: the pages are requested in
\* sequence from 1; a page is requested only once the page before held
\* per_page items and all of them were ingested; the sweep goes on only
\* past full pages, and it returns at a page that is empty or short, with
\* the number of items it ingested.
SweepInOrder ==
  (sweep.op = "import" /\ sweep.pc # "start") =>
    LET rq == sweep.requests
    IN  /\ \A j \in 1..Len(rq) : rq[j].page = j
        /\ \A j \in 2..Len(rq) :
             /\ rq[j - 1].items = per_page
             /\ rq[j].total = per_page * (j - 1)
             /\ rq[j].rows = per_page * (j - 1)
        /\ sweep.pc = "paging" =>
             /\ sweep.page = Len(rq) + 1
             /\ \A j \in 1..Len(rq) : rq[j].items = per_page
        /\ sweep.pc = "returned" =>
             /\ rq # <<>>
             /\ rq[Len(rq)].items < per_page
             /\ sweep.total = sweep.upstream.n
             /\ sweep.total = Cardinality(activities)

SweepEnded == sweep.op = "import" /\ sweep.pc \in {"returned", "failed"}

\* C15: the import requests pages of 200 items strictly in sequence, page
\* k + 1 only after the 200 items of page k were ingested; it stops at the
\* first page that is empty or shorter than 200 items, so it ends for every
\* finite upstream, and the count it returns is the number of items
\* ingested.
C15_SequentialSweep == []SweepInOrder /\ <>SweepEnded

C15_Witness ==
  /\ sweep.op = "import"
  /\ sweep.pc = "returned"
  /\ Len(sweep.requests) = 3
  /\ sweep.requests[3].items = 0
  /\ sweep.total = 2 * per_page
  /\ Cardinality(activities) = 2 * per_page

\* C18: a malformed item of a page is skipped and the import goes on: unless
\* upstream itself fails, the sweep completes and every well-formed item of
\* upstream is ingested.
C18_MalformedItemSkipped ==
  (SweepEnded /\ sweep.error \notin {"refresh", "upstream"}) =>
    /\ sweep.pc = "returned"
    /\ \A i \in 1..sweep.upstream.n :
         i # sweep.upstream.bad => \E a \in activities : a.id = i

\* C20: every page of the listing is requested with an access token that
\* the refresh check passed for that request, and from the second page on
\* the token is more than 60 seconds from its expiry when the page is
\* requested.
C20_FreshTokenPerPage ==
  (sweep.op = "import" /\ sweep.pc # "start") =>
    \A j \in 1..Len(sweep.requests) :
      /\ sweep.requests[j].checked
      /\ j > 1 => sweep.requests[j].fresh

-----------------------------------------------------------------------------
(* Two requests that refresh the same credential while upstream rotates    *)
(* the refresh token.  Both refresh checks are coroutines that give up     *)
(* the event loop while the POST to upstream is in flight (main.py, line   *)
(* 78; strava.py, line 56) and store the answer when they are resumed.     *)

Requests == {1, 2}

RefreshFns == {"ensure_fresh_access_token", "ensure_fresh_token"}

\* The tokens upstream issues, in the order it issues them; the first pair
\* is the one of the code exchange.
AccessTokens == <<"a1", "a2", "a3">>

RefreshTokens == <<"r1", "r2", "r3">>

\* No answer yet.
NoAnswer == [status |-> 0, body |-> ErrorBody]

\* The refresh check a request runs.
RefreshCheckOf(fn, table, tok, now_ts, resp) ==
  IF fn = "ensure_fresh_access_token"
  THEN ensure_fresh_access_token(table, tok, now_ts, resp)
  ELSE ensure_fresh_token(table, tok, now_ts, resp)

\* The credential of athlete 7 from the code exchange, about to expire.
StaleRows == UNION {upsert_token({}, 7, "a1", "r1", e, Some("read")) : e \in {30, 60}}

\* Both requests hold the stored credential.  Upstream either refuses a
\* refresh token it has already rotated away, or honours it once more (two
\* requests that reach it together).
InitRotation ==
  /\ impl = "storage"
  /\ \E row \in StaleRows, honours \in BOOLEAN, fns \in [Requests -> RefreshFns] :
       /\ tokens = {row}
       /\ rotation =
            [op |-> "refresh", first |-> row, honours |-> honours,
             valid |-> row.refresh_token, issued |-> <<>>,
             procs |-> [p \in Requests |->
                          [pc |-> "start", fn |-> fns[p], tok |-> row, at |-> 0,
                           resp |-> NoAnswer, error |-> "none"]]]
  /\ now = 0
  /\ tlast = NoTokenCall
  /\ cmp = NoCall
  /\ win = NoCall
  /\ workers = NoWorkers
  /\ sweep = NoCall
  /\ RepoIdle
  /\ PaceIdle
  /\ StatsIdle

\* main.py, lines 64-78; strava.py, lines 53-56: the clock is read, a
\* credential that is fresh is returned as it is, and for any other the
\* request posts its refresh token and waits.
RefreshCheck(p) ==
  /\ rotation.op = "refresh"
  /\ rotation.procs[p].pc = "start"
  /\ ClientConfigured
  /\ \E me \in {rotation.procs[p]} :
       rotation' =
         [rotation EXCEPT !.procs[p] =
            IF RefreshCheckOf(me.fn, tokens, me.tok, now, NoAnswer).called
            THEN [me EXCEPT !.pc = "posted", !.at = now]
            ELSE [me EXCEPT !.pc = "done", !.at = now]]
  /\ UNCHANGED <<cmp, win, workers, sweep, impl, varsPace, varsStats, varsTokens,
                 varsRepo>>

\* Upstream answers a refresh: a new access token and a new refresh token,
\* the refresh token before it no longer valid; or 400 for a refresh token
\* that it rotated away and does not honour.
UpstreamRefresh(p) ==
  /\ rotation.op = "refresh"
  /\ rotation.procs[p].pc = "posted"
  /\ \E me \in {rotation.procs[p]}, k \in {Len(rotation.issued) + 2} :
       IF me.tok.refresh_token = rotation.valid \/ rotation.honours
       THEN \E body \in {[access_token |-> AccessTokens[k],
                          refresh_token |-> RefreshTokens[k],
                          expires_at |-> now + 3600, scope |-> Some("read")]} :
              rotation' =
                [rotation EXCEPT
                   !.valid = body.refresh_token,
                   !.issued = Append(@, body),
                   !.procs[p] = [me EXCEPT !.pc = "answered",
                                           !.resp = [status |-> 200, body |-> body]]]
       ELSE rotation' =
              [rotation EXCEPT
                 !.procs[p] = [me EXCEPT !.pc = "answered",
                                         !.resp = [status |-> 400, body |-> ErrorBody]]]
  /\ UNCHANGED <<cmp, win, workers, sweep, impl, varsPace, varsStats, varsTokens,
                 varsRepo>>

\* main.py, lines 79-94; strava.py, lines 57-66: the request is resumed
\* with the answer, raises on an error status, and otherwise upserts the
\* answer and returns.
RefreshResume(p) ==
  /\ rotation.op = "refresh"
  /\ rotation.procs[p].pc = "answered"
  /\ \E me \in {rotation.procs[p]} :
     \E out \in {RefreshCheckOf(me.fn, tokens, me.tok, me.at, me.resp)} :
       /\ tokens' = out.store
       /\ rotation' =
            [rotation EXCEPT !.procs[p] =
               [me EXCEPT !.pc = "done", !.tok = out.mem, !.error = out.error.kind]]
  /\ UNCHANGED <<cmp, win, workers, sweep, now, tlast, impl, varsPace, varsStats,
                 varsRepo>>

RotationTick ==
  /\ now < MaxNow
  /\ now' = now + 1
  /\ UNCHANGED <<tokens, tlast, impl, varsPace, varsStats, varsRepo, varsAux>>

NextRotation ==
  \/ \E p \in Requests : RefreshCheck(p)
  \/ \E p \in Requests : UpstreamRefresh(p)
  \/ \E p \in Requests : RefreshResume(p)
  \/ RotationTick

SpecRotation == InitRotation /\ [][NextRotation]_vars

\* The stored access token, refresh token and expiry are those of the code
\* exchange or those of one answer of upstream.
FromOneResponse(row) ==
  \/ row = rotation.first
  \/ \E k \in 1..Len(rotation.issued) :
       /\ row.access_token = rotation.issued[k].access_token
       /\ row.refresh_token = rotation.issued[k].refresh_token
       /\ row.expires_at = rotation.issued[k].expires_at

\* Both requests have returned or raised, and upstream refreshed at least
\* once.
RotationDone ==
  /\ rotation.op = "refresh"
  /\ \A p \in Requests : rotation.procs[p].pc = "done"
  /\ rotation.issued # <<>>

\* C21 (second half): at every moment the stored access token, refresh
\* token and expiry come from one single answer of upstream.
StoredFromOneResponse ==
  rotation.op = "refresh" => \A row \in tokens : FromOneResponse(row)

\* C21: when two requests refresh the same stale credential and upstream
\* rotates the refresh token at each refresh, then once both are done the
\* stored credential is the one of the latest refresh upstream made, its
\* refresh token the one upstream still accepts; and at every moment the
\* stored access token, refresh token and expiry come from one answer.
C21_StoredIsLatestRefresh ==
  /\ StoredFromOneResponse
  /\ RotationDone =>
       \A row \in tokens :
         /\ row.refresh_token = rotation.valid
         /\ row.access_token = rotation.issued[Len(rotation.issued)].access_token
         /\ row.expires_at = rotation.issued[Len(rotation.issued)].expires_at

====
